---- MODULE Spec2Model ----
(***************************************************************************)
(* The event-dispatch engine of ampd (ampd/src/event_processor.rs):        *)
(* EventProcessor owns a vector of consumption tasks, one per add_handler  *)
(* call; run() spawns them on a JoinSet and monitor_set reduces their      *)
(* outcomes to one result.  Each task (consume_events) pulls items from    *)
(* its stream and hands every event to its handler under a deadline.       *)
(*                                                                         *)
(* The stream, the handler and the owner of the cancellation token are     *)
(* external: the model draws what they do (the next item, the handler's    *)
(* outcome, the moment of cancellation) nondeterministically.  An event is *)
(* identified by its position in its stream (1, 2, ...) and carries its    *)
(* kind.                                                                   *)
(*                                                                         *)
(* Two handlers are modelled on their own, under HandlerSpec: the multisig *)
(* handler (ampd/src/handlers/multisig.rs), whose signer and broadcaster   *)
(* are external, and the composite handler built by EventHandler::chain.   *)
(* to_recoverable of the multisig handler is modelled as a function on     *)
(* bytes under RecoverSpec, and the deadline of the RPC clients            *)
(* (ampd/src/json_rpc.rs, ampd/src/tm_client.rs) under ClientSpec.         *)
(*                                                                         *)
(* Of the contracts, the proof construction of the multisig-prover         *)
(* (contracts/multisig-prover) is modelled under ProverSpec, and of the    *)
(* packages TokenManagerType::try_from (interchain-token-service-api)      *)
(* under TokenSpec.                                                        *)
(***************************************************************************)
EXTENDS Integers, Sequences, FiniteSets, TLC

\* Bounds of the model.
\* add_handler calls per engine
MaxTasks == 2
\* items one stream yields before it can only end or stay silent
MaxEvents == 2
\* heartbeat ticks recorded
MaxTicks == 1
\* events handed to each of the handlers modelled on their own
MaxHandles == 2
\* signing session ids
MaxSession == 2
\* private keys the signatures handed to to_recoverable are made with: 1..MaxKey
MaxKey == 2
\* nonces the signatures handed to to_recoverable are made with: 1..MaxNonce
MaxNonce == 3
\* message digests handed to to_recoverable: 1..MaxDigest
MaxDigest == 2
\* calls made through the RPC clients
MaxCalls == 3
\* message ids in one call of construct_proof
MaxIds == 2
\* calls of construct_proof
MaxProofs == 2

TaskIds == 1..MaxTasks

\* events::Event: BlockEnd is the boundary variant, Abci stands for every other.
EventKinds == {"BlockEnd", "Abci"}

\* A task that has been spawned and has neither returned, panicked nor been dropped.
Live == {"waiting", "handling"}

VARIABLES
    phase,        \* "building" (before run), "running" (in monitor_set), "returned", "panicked"
    tasks,        \* self.tasks.len(): tasks 1..tasks are registered
    pc,           \* per task: "none", "created", "waiting" (at event_stream.next().await),
                  \*   "handling" (inside time::timeout(handler.handle)), "Completed" (Ok(())),
                  \*   "FaultedStream", "FaultedHandler" (Err returned), "TimedOut" (panicked),
                  \*   "Aborted" (dropped with the JoinSet)
    pos,          \* per task: number of items its stream has yielded to it
    event,        \* per task: kind of the local `event` of the loop body, "none" outside it
    streamEnded,  \* per task: the stream has yielded None
    handled,      \* per task: positions of the events passed to handler.handle, in call order
    inflight,     \* per task: handler invocations begun and not yet resolved
    outcomes,     \* per task: how the handler invocations resolved, in order:
                  \*   "ok" (Ok(())), "err" (Err(_)), "elapsed" (the deadline came first)
    engineToken,  \* self.token is cancelled
    token,        \* per task: its child token is cancelled
    signalledIn,  \* per task: its token was cancelled while its latest handler
                  \*   invocation was in flight (history, read by no action)
    set,          \* tasks held by the JoinSet of run()
    notified,     \* finished tasks of the JoinSet, in order of completion, not yet joined
    result,       \* what run() produced: "none", "Ok", "EventHandlerError", "EventStreamError",
                  \*   "HandlerFailed", or "panic"
    heartbeats    \* interval ticks logged by monitor_set

vars == <<phase, tasks, pc, pos, event, streamEnded, handled, inflight, outcomes,
          engineToken, token, signalledIn, set, notified, result, heartbeats>>

taskVars == <<pc, pos, event, streamEnded, handled, inflight, outcomes>>
tokenVars == <<engineToken, token, signalledIn>>
engineVars == <<phase, tasks, set, result, heartbeats>>

VARIABLES
    mpc,          \* multisig handler: "idle", "signing" (awaiting signer.sign),
                  \*   "broadcasting" (awaiting broadcaster.broadcast)
    mEvent,       \* multisig handler: the event of the latest handle call
    mResult,      \* multisig handler: what the latest handle call returned, "none" while
                  \*   it runs: "Ok", "DeserializeEvent", "Sign", "Broadcaster"
    mCalls,       \* multisig handler: number of handle calls so far
    signOut,      \* what signer.sign answered in the latest handle call: "none", a
                  \*   signature, or "failed"
    signed,       \* the calls of signer.sign so far: the digest each was made for, and
                  \*   the session id of the event it was made in
    broadcasts,   \* the transactions handed to broadcaster.broadcast so far
    cpc,          \* composite handler: "idle", "inA", "inB"
    cResult,      \* composite handler: what the latest handle call returned, "none"
                  \*   while it runs: "Ok", "ErrA", "ErrB"
    aOut,         \* how A resolved in the latest handle call: "none", "ok", "err"
    bOut,         \* how B resolved in the latest handle call: "none", "ok", "err"
    aLog,         \* the events handler A was invoked on, by number, in order
    bLog          \* the events handler B was invoked on, by number, in order

VARIABLES
    recIn,        \* to_recoverable: the arguments of the latest call
    recOut,       \* to_recoverable: what the latest call returned
    rpcPc,        \* RPC clients: "idle", "pending" (inside time::timeout), "panicked"
    rpcMethod,    \* RPC clients: the method of the latest call
    rpcLog        \* RPC clients: how the calls made so far ended, in order

VARIABLES
    keyId,        \* multisig-prover: KEY_ID, "none" while nothing is stored
    commandsBatch,      \* multisig-prover: COMMANDS_BATCH, as a set of entries
    replyBatch,         \* multisig-prover: REPLY_BATCH, an Option
    proofBatchMultisig, \* multisig-prover: PROOF_BATCH_MULTISIG, as a set of entries
    ppc,          \* multisig-prover: "idle", or "submsg" while the submessage of
                  \*   construct_proof is with the multisig contract
    proofCalls,   \* multisig-prover: calls of construct_proof so far
    constructArgs,      \* the latest call of construct_proof: its message ids, the ids
                  \*   of the query it sent to the gateway, whether the gateway
                  \*   answered and the messages it answered with
    replyData,    \* the data of the latest reply
    pResponse,    \* multisig-prover: what the latest entry point returned
    ttIn,         \* TokenManagerType: the argument of the call
    ttOut         \* TokenManagerType: what try_from returned

multisigVars == <<mpc, mEvent, mResult, mCalls, signOut, signed, broadcasts>>
chainVars == <<cpc, cResult, aOut, bOut, aLog, bLog>>
recoverVars == <<recIn, recOut>>
clientVars == <<rpcPc, rpcMethod, rpcLog>>
proverVars == <<keyId, commandsBatch, replyBatch, proofBatchMultisig, ppc, proofCalls,
                constructArgs, replyData, pResponse>>
tokenTypeVars == <<ttIn, ttOut>>
contractVars == <<proverVars, tokenTypeVars>>
libVars == <<recoverVars, clientVars, contractVars>>
handlerVars == <<multisigVars, chainVars, libVars>>
allVars == <<vars, handlerVars>>

\* The value of mEvent before the first handle call.
NoEvent ==
    [event_type |-> "none", wellFormed |-> FALSE, contract_address |-> "none",
     session_id |-> 0, pub_keys |-> {}, msg |-> "none"]

\* The value of recIn before the first call of to_recoverable.
NoInput == [sig |-> <<>>, digest |-> <<>>, pub_key |-> <<>>]

\* A value of type Result<Vec<u8>, Error>, and the one recOut starts with.
Bytes(b) == [tag |-> "Ok", bytes |-> b]
Failure(e) == [tag |-> e, bytes |-> <<>>]
NoOutput == [tag |-> "none", bytes |-> <<>>]

\* EventProcessor::new; the handlers modelled on their own are idle; the storage of
\* the multisig-prover is as instantiate leaves it.
Init ==
    /\ phase = "building"
    /\ tasks = 0
    /\ pc = [t \in TaskIds |-> "none"]
    /\ pos = [t \in TaskIds |-> 0]
    /\ event = [t \in TaskIds |-> "none"]
    /\ streamEnded = [t \in TaskIds |-> FALSE]
    /\ handled = [t \in TaskIds |-> <<>>]
    /\ inflight = [t \in TaskIds |-> 0]
    /\ outcomes = [t \in TaskIds |-> <<>>]
    /\ engineToken = FALSE
    /\ token = [t \in TaskIds |-> FALSE]
    /\ signalledIn = [t \in TaskIds |-> FALSE]
    /\ set = {}
    /\ notified = <<>>
    /\ result = "none"
    /\ heartbeats = 0
    /\ mpc = "idle"
    /\ mEvent = NoEvent
    /\ mResult = "none"
    /\ mCalls = 0
    /\ signOut = "none"
    /\ signed = <<>>
    /\ broadcasts = <<>>
    /\ cpc = "idle"
    /\ cResult = "none"
    /\ aOut = "none"
    /\ bOut = "none"
    /\ aLog = <<>>
    /\ bLog = <<>>
    /\ recIn = NoInput
    /\ recOut = NoOutput
    /\ rpcPc = "idle"
    /\ rpcMethod = "none"
    /\ rpcLog = <<>>
    /\ keyId = "none"
    /\ commandsBatch = {}
    /\ replyBatch = [some |-> FALSE, value |-> [keccak256 |-> <<>>]]
    /\ proofBatchMultisig = {}
    /\ ppc = "idle"
    /\ proofCalls = 0
    /\ constructArgs =
          [message_ids |-> <<>>, queried |-> FALSE, query |-> <<>>, answered |-> FALSE,
           messages |-> <<>>]
    /\ replyData = [some |-> FALSE, valid |-> FALSE, session_id |-> 0]
    /\ pResponse = [tag |-> "none", messages |-> <<>>, events |-> <<>>]
    /\ ttIn = [from |-> "none", variant |-> "none", value |-> 0]
    /\ ttOut = [tag |-> "none", variant |-> "none"]

\* Cancel with the tasks racing their handler against token.cancelled(): an invocation
\* in flight is dropped and its task returns Ok(()) at once.
Cancel_Interrupting ==
    /\ ~engineToken
    /\ engineToken' = TRUE
    /\ token' = [t \in TaskIds |-> t <= tasks]
    /\ signalledIn' = [t \in TaskIds |-> pc[t] = "handling"]
    /\ pc' = [t \in TaskIds |-> IF pc[t] = "handling" THEN "Completed" ELSE pc[t]]
    /\ inflight' = [t \in TaskIds |-> 0]
    /\ event' = [t \in TaskIds |-> "none"]
    /\ notified' = IF phase = "running"
                   THEN notified \o SelectSeq([i \in 1..MaxTasks |-> i],
                                              LAMBDA i : pc[i] = "handling")
                   ELSE notified
    /\ UNCHANGED <<pos, streamEnded, handled, outcomes, engineVars>>
    /\ UNCHANGED handlerVars

\* The owner of the token passed to EventProcessor::new cancels it (or an ancestor):
\* every child token handed out so far becomes cancelled with it.
Cancel ==
    /\ ~engineToken
    /\ engineToken' = TRUE
    /\ token' = [t \in TaskIds |-> t <= tasks]
    /\ signalledIn' = [t \in TaskIds |-> pc[t] = "handling"]
    /\ UNCHANGED <<taskVars, engineVars, notified>>
    /\ UNCHANGED handlerVars

\* AddHandler with the task spawned at registration.
AddHandler_Spawning ==
    /\ phase = "building"
    /\ tasks < MaxTasks
    /\ tasks' = tasks + 1
    /\ pc' = [pc EXCEPT ![tasks + 1] = "waiting"]
    /\ token' = [token EXCEPT ![tasks + 1] = engineToken]
    /\ UNCHANGED <<phase, pos, event, streamEnded, handled, inflight, outcomes,
                   engineToken, signalledIn, set, notified, result, heartbeats>>
    /\ UNCHANGED handlerVars

\* AddHandler with a fresh token for the task instead of a child of the engine's.
AddHandler_FreshToken ==
    /\ phase = "building"
    /\ tasks < MaxTasks
    /\ tasks' = tasks + 1
    /\ pc' = [pc EXCEPT ![tasks + 1] = "created"]
    /\ token' = [token EXCEPT ![tasks + 1] = FALSE]
    /\ UNCHANGED <<phase, pos, event, streamEnded, handled, inflight, outcomes,
                   engineToken, signalledIn, set, notified, result, heartbeats>>
    /\ UNCHANGED handlerVars

\* EventProcessor::add_handler: push consume_events(.., self.token.child_token()).
\* The task is only created; a child of a cancelled token is born cancelled.
AddHandler ==
    /\ phase = "building"
    /\ tasks < MaxTasks
    /\ tasks' = tasks + 1
    /\ pc' = [pc EXCEPT ![tasks + 1] = "created"]
    /\ token' = [token EXCEPT ![tasks + 1] = engineToken]
    /\ UNCHANGED <<phase, pos, event, streamEnded, handled, inflight, outcomes,
                   engineToken, signalledIn, set, notified, result, heartbeats>>
    /\ UNCHANGED handlerVars

\* EventProcessor::run up to the call of monitor_set: every task is spawned on the set.
Run ==
    /\ phase = "building"
    /\ phase' = "running"
    /\ set' = 1..tasks
    /\ pc' = [t \in TaskIds |-> IF pc[t] = "created" THEN "waiting" ELSE pc[t]]
    /\ UNCHANGED <<tasks, pos, event, streamEnded, handled, inflight, outcomes,
                   tokenVars, notified, result, heartbeats>>
    /\ UNCHANGED handlerVars

\* A task that finishes wakes the JoinSet, which queues it for join_next; once run()
\* is over the set is gone and nobody is told.
Finished(t) ==
    IF phase = "running" THEN Append(notified, t) ELSE notified

\* PullEvent with the next event dispatched although the previous invocation has
\* not resolved (the handler call spawned instead of awaited).
PullEvent_Overlapping(t, k) ==
    /\ pc[t] \in Live
    /\ ~streamEnded[t]
    /\ pos[t] < MaxEvents
    /\ pos' = [pos EXCEPT ![t] = pos[t] + 1]
    /\ event' = [event EXCEPT ![t] = k]
    /\ handled' = [handled EXCEPT ![t] = Append(handled[t], pos[t] + 1)]
    /\ inflight' = [inflight EXCEPT ![t] = inflight[t] + 1]
    /\ pc' = [pc EXCEPT ![t] = "handling"]
    /\ signalledIn' = [signalledIn EXCEPT ![t] = FALSE]
    /\ UNCHANGED <<streamEnded, outcomes, engineToken, token, engineVars, notified>>
    /\ UNCHANGED handlerVars

\* PullEvent with the loop entered again by a task that has returned Ok(()).
PullEvent_AfterExit(t, k) ==
    /\ pc[t] \in {"waiting", "Completed"}
    /\ ~streamEnded[t]
    /\ pos[t] < MaxEvents
    /\ pos' = [pos EXCEPT ![t] = pos[t] + 1]
    /\ event' = [event EXCEPT ![t] = k]
    /\ handled' = [handled EXCEPT ![t] = Append(handled[t], pos[t] + 1)]
    /\ inflight' = [inflight EXCEPT ![t] = inflight[t] + 1]
    /\ pc' = [pc EXCEPT ![t] = "handling"]
    /\ signalledIn' = [signalledIn EXCEPT ![t] = FALSE]
    /\ UNCHANGED <<streamEnded, outcomes, engineToken, token, engineVars, notified>>
    /\ UNCHANGED handlerVars

\* consume_events, the loop head and the handler call: the stream yields Some(Ok(event))
\* and handler.handle(&event) is started under the deadline.
PullEvent(t, k) ==
    /\ pc[t] = "waiting"
    /\ ~streamEnded[t]
    /\ pos[t] < MaxEvents
    /\ pos' = [pos EXCEPT ![t] = pos[t] + 1]
    /\ event' = [event EXCEPT ![t] = k]
    /\ handled' = [handled EXCEPT ![t] = Append(handled[t], pos[t] + 1)]
    /\ inflight' = [inflight EXCEPT ![t] = inflight[t] + 1]
    /\ pc' = [pc EXCEPT ![t] = "handling"]
    /\ signalledIn' = [signalledIn EXCEPT ![t] = FALSE]
    /\ UNCHANGED <<streamEnded, outcomes, engineToken, token, engineVars, notified>>
    /\ UNCHANGED handlerVars

\* consume_events, line 66: the stream yields Some(Err(_)); `?` returns
\* Err(EventStreamError) before the handler is reached.
PullErr(t) ==
    /\ pc[t] = "waiting"
    /\ ~streamEnded[t]
    /\ pos[t] < MaxEvents
    /\ pos' = [pos EXCEPT ![t] = pos[t] + 1]
    /\ pc' = [pc EXCEPT ![t] = "FaultedStream"]
    /\ notified' = Finished(t)
    /\ UNCHANGED <<event, streamEnded, handled, inflight, outcomes, tokenVars, engineVars>>
    /\ UNCHANGED handlerVars

\* consume_events: the stream yields None, the while loop ends and the task returns Ok(()).
PullEnd(t) ==
    /\ pc[t] = "waiting"
    /\ ~streamEnded[t]
    /\ streamEnded' = [streamEnded EXCEPT ![t] = TRUE]
    /\ pc' = [pc EXCEPT ![t] = "Completed"]
    /\ notified' = Finished(t)
    /\ UNCHANGED <<pos, event, handled, inflight, outcomes, tokenVars, engineVars>>
    /\ UNCHANGED handlerVars

\* Checkpoint with the test for the boundary variant left out.
Checkpoint_AnyEvent(t) ==
    IF token[t] THEN "Completed" ELSE "waiting"

\* Checkpoint with the token not consulted: every boundary event stops the task.
Checkpoint_AnyBoundary(t) ==
    IF event[t] = "BlockEnd" THEN "Completed" ELSE "waiting"

\* Checkpoint with the token as it was when the handler was called, a cancellation
\* that arrived during the call not yet seen.
Checkpoint_BeforeHandler(t) ==
    IF event[t] = "BlockEnd" /\ token[t] /\ ~signalledIn[t] THEN "Completed" ELSE "waiting"

\* consume_events, line 83: the checkpoint after a handled event.
Checkpoint(t) ==
    IF event[t] = "BlockEnd" /\ token[t] THEN "Completed" ELSE "waiting"

\* The handler returns Ok(()) within the deadline; then the checkpoint of line 83.
HandlerOk(t) ==
    /\ pc[t] = "handling"
    /\ inflight' = [inflight EXCEPT ![t] = inflight[t] - 1]
    /\ outcomes' = [outcomes EXCEPT ![t] = Append(outcomes[t], "ok")]
    /\ event' = [event EXCEPT ![t] = "none"]
    /\ pc' = [pc EXCEPT ![t] = Checkpoint(t)]
    /\ notified' = IF Checkpoint(t) = "Completed" THEN Finished(t) ELSE notified
    /\ UNCHANGED <<pos, streamEnded, handled, tokenVars, engineVars>>
    /\ UNCHANGED handlerVars

\* HandlerErr with the checkpoint of line 83 consulted before the handler's result.
HandlerErr_CheckpointFirst(t) ==
    /\ pc[t] = "handling"
    /\ inflight' = [inflight EXCEPT ![t] = inflight[t] - 1]
    /\ outcomes' = [outcomes EXCEPT ![t] = Append(outcomes[t], "err")]
    /\ event' = [event EXCEPT ![t] = "none"]
    /\ pc' = [pc EXCEPT ![t] = IF Checkpoint(t) = "Completed" THEN "Completed"
                               ELSE "FaultedHandler"]
    /\ notified' = Finished(t)
    /\ UNCHANGED <<pos, streamEnded, handled, tokenVars, engineVars>>
    /\ UNCHANGED handlerVars

\* The handler returns Err(_) within the deadline: `?` returns Err(EventHandlerError).
HandlerErr(t) ==
    /\ pc[t] = "handling"
    /\ inflight' = [inflight EXCEPT ![t] = inflight[t] - 1]
    /\ outcomes' = [outcomes EXCEPT ![t] = Append(outcomes[t], "err")]
    /\ event' = [event EXCEPT ![t] = "none"]
    /\ pc' = [pc EXCEPT ![t] = "FaultedHandler"]
    /\ notified' = Finished(t)
    /\ UNCHANGED <<pos, streamEnded, handled, tokenVars, engineVars>>
    /\ UNCHANGED handlerVars

\* Timeout with the elapsed deadline logged and the loop going on to the next item.
Timeout_Skip(t) ==
    /\ pc[t] = "handling"
    /\ phase = "running"
    /\ inflight' = [inflight EXCEPT ![t] = inflight[t] - 1]
    /\ outcomes' = [outcomes EXCEPT ![t] = Append(outcomes[t], "elapsed")]
    /\ event' = [event EXCEPT ![t] = "none"]
    /\ pc' = [pc EXCEPT ![t] = "waiting"]
    /\ UNCHANGED <<pos, streamEnded, handled, tokenVars, engineVars, notified>>
    /\ UNCHANGED handlerVars

\* Timeout with the deadline wrapped around the whole loop body, the wait for the next
\* item included.
Timeout_CoversWait(t) ==
    /\ pc[t] \in Live
    /\ phase = "running"
    /\ inflight' = [inflight EXCEPT ![t] = 0]
    /\ outcomes' = [outcomes EXCEPT ![t] = Append(outcomes[t], "elapsed")]
    /\ event' = [event EXCEPT ![t] = "none"]
    /\ pc' = [pc EXCEPT ![t] = "TimedOut"]
    /\ notified' = Finished(t)
    /\ UNCHANGED <<pos, streamEnded, handled, tokenVars, engineVars>>
    /\ UNCHANGED handlerVars

\* The 20000 ms of time::timeout elapse first: expect("handler timed out") panics and
\* the task ends with a JoinError.  The timer wakes the task, so this needs a poll of
\* its own, which a task of a dropped JoinSet no longer gets.
Timeout(t) ==
    /\ pc[t] = "handling"
    /\ phase = "running"
    /\ inflight' = [inflight EXCEPT ![t] = inflight[t] - 1]
    /\ outcomes' = [outcomes EXCEPT ![t] = Append(outcomes[t], "elapsed")]
    /\ event' = [event EXCEPT ![t] = "none"]
    /\ pc' = [pc EXCEPT ![t] = "TimedOut"]
    /\ notified' = Finished(t)
    /\ UNCHANGED <<pos, streamEnded, handled, tokenVars, engineVars>>
    /\ UNCHANGED handlerVars

\* JoinResult with every failure of a task reported as the one kind HandlerFailed.
JoinResult_OneKind(t) ==
    IF pc[t] = "Completed" THEN "Ok" ELSE "HandlerFailed"

\* What join_next hands to the match of monitor_set for a finished task, and what the
\* match makes of it: Some(Ok(res)) => return res, Some(Err(_)) => bail!(HandlerFailed).
JoinResult(t) ==
    CASE pc[t] = "Completed" -> "Ok"
      [] pc[t] = "FaultedStream" -> "EventStreamError"
      [] pc[t] = "FaultedHandler" -> "EventHandlerError"
      [] pc[t] = "TimedOut" -> "HandlerFailed"

\* MonitorJoin with the finished tasks taken newest first.
MonitorJoin_NewestFirst ==
    /\ phase = "running"
    /\ notified # <<>>
    /\ set' = set \ {notified[Len(notified)]}
    /\ notified' = SubSeq(notified, 1, Len(notified) - 1)
    /\ result' = JoinResult(notified[Len(notified)])
    /\ phase' = "returned"
    /\ UNCHANGED <<tasks, heartbeats, taskVars, tokenVars>>
    /\ UNCHANGED handlerVars

\* MonitorJoin with the outcome looked at only when no task of the set is running
\* any more (the tasks joined with join_all).
MonitorJoin_WaitAll ==
    /\ phase = "running"
    /\ notified # <<>>
    /\ \A t \in set : pc[t] \notin Live
    /\ set' = set \ {Head(notified)}
    /\ notified' = Tail(notified)
    /\ result' = JoinResult(Head(notified))
    /\ phase' = "returned"
    /\ UNCHANGED <<tasks, heartbeats, taskVars, tokenVars>>
    /\ UNCHANGED handlerVars

\* MonitorJoin with the token cancelled on the way out, to stop the other tasks.
MonitorJoin_Cancelling ==
    /\ phase = "running"
    /\ notified # <<>>
    /\ set' = set \ {Head(notified)}
    /\ notified' = Tail(notified)
    /\ result' = JoinResult(Head(notified))
    /\ phase' = "returned"
    /\ engineToken' = TRUE
    /\ token' = [t \in TaskIds |-> t <= tasks]
    /\ UNCHANGED <<tasks, heartbeats, taskVars, signalledIn>>
    /\ UNCHANGED handlerVars

\* monitor_set, the join_next arm with Some(_): the first finished task is taken off
\* the set and its outcome is returned from run().
MonitorJoin ==
    /\ phase = "running"
    /\ notified # <<>>
    /\ set' = set \ {Head(notified)}
    /\ notified' = Tail(notified)
    /\ result' = JoinResult(Head(notified))
    /\ phase' = "returned"
    /\ UNCHANGED <<tasks, heartbeats, taskVars, tokenVars>>
    /\ UNCHANGED handlerVars

\* monitor_set, the join_next arm with None: the set is empty.
MonitorNone ==
    /\ phase = "running"
    /\ set = {}
    /\ result' = "panic"
    /\ phase' = "panicked"
    /\ UNCHANGED <<tasks, set, heartbeats, taskVars, tokenVars, notified>>
    /\ UNCHANGED handlerVars

\* Tick with the finished tasks reaped from the set on every tick.
Tick_Reaping ==
    /\ phase = "running"
    /\ heartbeats < MaxTicks
    /\ heartbeats' = heartbeats + 1
    /\ set' = set \ {notified[i] : i \in 1..Len(notified)}
    /\ notified' = <<>>
    /\ UNCHANGED <<phase, tasks, result, taskVars, tokenVars>>
    /\ UNCHANGED handlerVars

\* monitor_set, the interval.tick() arm: logs set.len().
Tick ==
    /\ phase = "running"
    /\ heartbeats < MaxTicks
    /\ heartbeats' = heartbeats + 1
    /\ UNCHANGED <<phase, tasks, set, result, taskVars, tokenVars, notified>>
    /\ UNCHANGED handlerVars

\* DropTask with the abort reaching only a task that waits on its stream: a handler
\* invocation in flight is left to run.
DropTask_OnlyWaiting(t) ==
    /\ phase \in {"returned", "panicked"}
    /\ pc[t] = "waiting"
    /\ pc' = [pc EXCEPT ![t] = "Aborted"]
    /\ inflight' = [inflight EXCEPT ![t] = 0]
    /\ event' = [event EXCEPT ![t] = "none"]
    /\ UNCHANGED <<pos, streamEnded, handled, outcomes, tokenVars, engineVars, notified>>
    /\ UNCHANGED handlerVars

\* run() is over and its JoinSet is dropped, which aborts every task still in it: the
\* task is dropped at its await.  A task that is being polled at that moment goes on
\* until its poll ends, so the steps above stay possible until DropTask.
DropTask(t) ==
    /\ phase \in {"returned", "panicked"}
    /\ pc[t] \in Live
    /\ pc' = [pc EXCEPT ![t] = "Aborted"]
    /\ inflight' = [inflight EXCEPT ![t] = 0]
    /\ event' = [event EXCEPT ![t] = "none"]
    /\ UNCHANGED <<pos, streamEnded, handled, outcomes, tokenVars, engineVars, notified>>
    /\ UNCHANGED handlerVars

TaskStep(t) ==
    \/ \E k \in EventKinds : PullEvent(t, k)
    \/ PullErr(t)
    \/ PullEnd(t)
    \/ HandlerOk(t)
    \/ HandlerErr(t)
    \/ Timeout(t)
    \/ DropTask(t)

Next ==
    \/ Cancel
    \/ AddHandler
    \/ Run
    \/ MonitorJoin
    \/ MonitorNone
    \/ Tick
    \/ \E t \in TaskIds : TaskStep(t)

Spec == Init /\ [][Next]_allVars

(***************************************************************************)
(* The multisig handler, Handler::handle of ampd/src/handlers/multisig.rs. *)
(***************************************************************************)

\* self.worker and self.multisig of the handler.
Worker == "worker"
Multisig == "multisig"

\* What an event handed to the handler can be: its type, whether its attributes
\* deserialize into SigningStartedEvent, and the attributes the handler reads; msg
\* is the digest to sign.
EventTypes == {"wasm-signing_started", "other"}
MessageDigests == {"digest1", "digest2"}
Addresses == {"multisig", "elsewhere"}
PubKeySets == {{"peer"}, {"worker", "peer"}}
Events ==
    [event_type : EventTypes, wellFormed : BOOLEAN, contract_address : Addresses,
     session_id : 1..MaxSession, pub_keys : PubKeySets, msg : MessageDigests]

\* What the signer can answer with: a signature to_recoverable accepts, or one it
\* cannot parse or recover the key from.
Signatures == {"recoverable", "unrecoverable"}

\* TryInto with attributes that do not deserialize reported as a type mismatch.
TryInto_Lenient(e) ==
    IF e.event_type # "wasm-signing_started" \/ ~e.wellFormed THEN "EventTypeMismatch"
    ELSE "Ok"

\* event.try_into() of line 132, as the tests of lines 292-345 pin it down: another
\* event type is a mismatch whatever the attributes are, a matching type with
\* attributes that do not deserialize is a failure.
TryInto(e) ==
    IF e.event_type # "wasm-signing_started" THEN "EventTypeMismatch"
    ELSE IF ~e.wellFormed THEN "DeserializationFailed"
    ELSE "Ok"

\* Triage with the comparison of the contract address left out.
Triage_NoAddressCheck(e) ==
    IF TryInto(e) = "EventTypeMismatch" THEN "Ok"
    ELSE IF TryInto(e) = "DeserializationFailed" THEN "DeserializeEvent"
    ELSE IF Worker \notin e.pub_keys THEN "Ok"
    ELSE "sign"

\* Handler::handle up to its first await, lines 127-150: what it returns at once, or
\* "sign" when it goes on to call the signer.
Triage(e) ==
    IF TryInto(e) = "EventTypeMismatch" THEN "Ok"
    ELSE IF TryInto(e) = "DeserializationFailed" THEN "DeserializeEvent"
    ELSE IF e.contract_address # Multisig THEN "Ok"
    ELSE IF Worker \notin e.pub_keys THEN "Ok"
    ELSE "sign"

\* to_recoverable, lines 173-193, as far as the handler depends on it.
ToRecoverable(sig) ==
    IF sig = "recoverable" THEN "Ok" ELSE "Sign"

\* The call of signer.sign, lines 151-155: the digest of the event, recorded with the
\* session id of the event the call is made for.
Sign(e) ==
    [session_id |-> e.session_id, msg |-> e.msg]

\* The transaction of broadcast_signature, lines 99-110.
SubmitSignature(e) ==
    [sender |-> Worker, contract |-> Multisig, session_id |-> e.session_id]

\* Handler::handle is called with an event: lines 127-153.
MHandle(e) ==
    /\ mpc = "idle"
    /\ mCalls < MaxHandles
    /\ mCalls' = mCalls + 1
    /\ mEvent' = e
    /\ signOut' = "none"
    /\ IF Triage(e) = "sign"
       THEN /\ mpc' = "signing"
            /\ mResult' = "none"
            /\ signed' = Append(signed, Sign(e))
       ELSE /\ mpc' = "idle"
            /\ mResult' = Triage(e)
            /\ signed' = signed
    /\ UNCHANGED <<broadcasts, chainVars, libVars, vars>>

\* MSignErr with the failure of the signer logged and swallowed.
MSignErr_Swallowed ==
    /\ mpc = "signing"
    /\ signOut' = "failed"
    /\ mpc' = "idle"
    /\ mResult' = "Ok"
    /\ UNCHANGED <<mEvent, mCalls, signed, broadcasts, chainVars, libVars, vars>>

\* signer.sign fails: line 155 returns Error::Sign.
MSignErr ==
    /\ mpc = "signing"
    /\ signOut' = "failed"
    /\ mpc' = "idle"
    /\ mResult' = "Sign"
    /\ UNCHANGED <<mEvent, mCalls, signed, broadcasts, chainVars, libVars, vars>>

\* signer.sign answers with a signature: lines 157-160, to_recoverable and, when it
\* succeeds, the call of broadcast_signature.
MSignOk(sig) ==
    /\ mpc = "signing"
    /\ signOut' = sig
    /\ IF ToRecoverable(sig) = "Ok"
       THEN /\ mpc' = "broadcasting"
            /\ mResult' = "none"
            /\ broadcasts' = Append(broadcasts, SubmitSignature(mEvent))
       ELSE /\ mpc' = "idle"
            /\ mResult' = ToRecoverable(sig)
            /\ broadcasts' = broadcasts
    /\ UNCHANGED <<mEvent, mCalls, signed, chainVars, libVars, vars>>

\* broadcaster.broadcast succeeds: lines 160-162.
MBroadcastOk ==
    /\ mpc = "broadcasting"
    /\ mpc' = "idle"
    /\ mResult' = "Ok"
    /\ UNCHANGED <<mEvent, mCalls, signOut, signed, broadcasts, chainVars, libVars, vars>>

\* MBroadcastErr with the transaction handed to the broadcaster once more before the
\* failure is returned.
MBroadcastErr_Retry ==
    /\ mpc = "broadcasting"
    /\ mpc' = "idle"
    /\ mResult' = "Broadcaster"
    /\ broadcasts' = Append(broadcasts, SubmitSignature(mEvent))
    /\ UNCHANGED <<mEvent, mCalls, signOut, signed, chainVars, libVars, vars>>

\* broadcaster.broadcast fails: line 115 returns Error::Broadcaster.
MBroadcastErr ==
    /\ mpc = "broadcasting"
    /\ mpc' = "idle"
    /\ mResult' = "Broadcaster"
    /\ UNCHANGED <<mEvent, mCalls, signOut, signed, broadcasts, chainVars, libVars, vars>>

(***************************************************************************)
(* The composite handler of EventHandler::chain(A, B).                     *)
(***************************************************************************)

\* handle of the composite is called with the next event: A is invoked on it.
ChainHandle ==
    /\ cpc = "idle"
    /\ Len(aLog) < MaxHandles
    /\ cpc' = "inA"
    /\ cResult' = "none"
    /\ aOut' = "none"
    /\ bOut' = "none"
    /\ aLog' = Append(aLog, Len(aLog) + 1)
    /\ UNCHANGED <<bLog, multisigVars, libVars, vars>>

\* ChainAErr with the failure of A dropped and B invoked all the same.
ChainAErr_Continue ==
    /\ cpc = "inA"
    /\ aOut' = "err"
    /\ cpc' = "inB"
    /\ bLog' = Append(bLog, aLog[Len(aLog)])
    /\ UNCHANGED <<cResult, bOut, aLog, multisigVars, libVars, vars>>

\* A fails: the composite returns the failure of A.
ChainAErr ==
    /\ cpc = "inA"
    /\ aOut' = "err"
    /\ cpc' = "idle"
    /\ cResult' = "ErrA"
    /\ UNCHANGED <<bOut, aLog, bLog, multisigVars, libVars, vars>>

\* A succeeds: B is invoked on the same event.
ChainAOk ==
    /\ cpc = "inA"
    /\ aOut' = "ok"
    /\ cpc' = "inB"
    /\ bLog' = Append(bLog, aLog[Len(aLog)])
    /\ UNCHANGED <<cResult, bOut, aLog, multisigVars, libVars, vars>>

\* B resolves: the composite returns what B returned.
ChainB(out) ==
    /\ cpc = "inB"
    /\ bOut' = out
    /\ cpc' = "idle"
    /\ cResult' = IF out = "ok" THEN "Ok" ELSE "ErrB"
    /\ UNCHANGED <<aOut, aLog, bLog, multisigVars, libVars, vars>>

HandlerNext ==
    \/ \E e \in Events : MHandle(e)
    \/ MSignErr
    \/ \E sig \in Signatures : MSignOk(sig)
    \/ MBroadcastOk
    \/ MBroadcastErr
    \/ ChainHandle
    \/ ChainAErr
    \/ ChainAOk
    \/ \E out \in {"ok", "err"} : ChainB(out)

HandlerSpec == Init /\ [][HandlerNext]_allVars

(***************************************************************************)
(* to_recoverable of ampd/src/handlers/multisig.rs, on a curve of the      *)
(* shape of secp256k1 (y^2 = x^3 + 7 over a prime field, a group of prime  *)
(* order below the field prime) that is small enough to enumerate.         *)
(* Scalars and coordinates keep their encoding: 32 bytes, big-endian.      *)
(***************************************************************************)

\* The curve: field prime, group order, the constant of the equation, the base point.
FieldPrime == 43
GroupOrder == 31
CurveB == 7
Generator == <<2, 12>>

\* Bytes of one scalar or coordinate.
ScalarLen == 32

\* What line 190 adds to the recovery id.
RecoveryOffset == 27

\* ecdsa::RecoveryId::MAX: bit 0 of a recovery id tells that y is odd, bit 1 that the
\* x-coordinate was reduced by the group order when r was computed.
MaxRecoveryId == 3

\* The point at infinity; it also stands for "no point" where decoding fails.
Infinity == <<>>

Inverse(a, m) == CHOOSE x \in 1..(m - 1) : (a * x) % m = 1

OnCurve(x, y) == (y * y) % FieldPrime = (x * x * x + CurveB) % FieldPrime

Negate(pt) ==
    IF pt = Infinity THEN Infinity ELSE <<pt[1], (FieldPrime - pt[2]) % FieldPrime>>

Add(a, b) ==
    IF a = Infinity THEN b
    ELSE IF b = Infinity THEN a
    ELSE IF a[1] = b[1] /\ (a[2] + b[2]) % FieldPrime = 0 THEN Infinity
    ELSE LET l == IF a = b
                  THEN (3 * a[1] * a[1] * Inverse((2 * a[2]) % FieldPrime, FieldPrime))
                           % FieldPrime
                  ELSE (((b[2] - a[2]) % FieldPrime)
                           * Inverse((b[1] - a[1]) % FieldPrime, FieldPrime)) % FieldPrime
             x == (l * l - a[1] - b[1]) % FieldPrime
         IN  <<x, (l * (a[1] - x) - a[2]) % FieldPrime>>

RECURSIVE ScalarMul(_, _)
ScalarMul(k, pt) ==
    IF k = 0 THEN Infinity ELSE Add(pt, ScalarMul(k - 1, pt))

\* A value below 256 as ScalarLen big-endian bytes.
Pad(v) == [i \in 1..ScalarLen |-> IF i = ScalarLen THEN v ELSE 0]

\* The value of ScalarLen big-endian bytes; every value of more than one byte is
\* beyond the field prime and the group order, and 256 stands for all of them.
FromBigEndian(b) ==
    IF \A i \in 1..(ScalarLen - 1) : b[i] = 0 THEN b[ScalarLen] ELSE 256

\* Signature::to_vec, line 188: r then s.
ToVec(r, s) == Pad(r) \o Pad(s)

\* ecdsa::Signature::from_slice, line 179: 64 bytes, both scalars in 1..GroupOrder-1.
FromSlice(sig) ==
    IF Len(sig) # 2 * ScalarLen
    THEN [ok |-> FALSE, r |-> 0, s |-> 0]
    ELSE LET r == FromBigEndian(SubSeq(sig, 1, ScalarLen))
             s == FromBigEndian(SubSeq(sig, ScalarLen + 1, 2 * ScalarLen))
         IN  IF r \in 1..(GroupOrder - 1) /\ s \in 1..(GroupOrder - 1)
             THEN [ok |-> TRUE, r |-> r, s |-> s]
             ELSE [ok |-> FALSE, r |-> 0, s |-> 0]

\* The point of the curve with this x-coordinate and this parity of y, if there is one.
Decompress(x, odd) ==
    IF x < FieldPrime /\ \E y \in 0..(FieldPrime - 1) : OnCurve(x, y) /\ y % 2 = odd
    THEN <<x, CHOOSE y \in 0..(FieldPrime - 1) : OnCurve(x, y) /\ y % 2 = odd>>
    ELSE Infinity

\* PublicKey::to_bytes of a secp256k1 key: the compressed SEC1 encoding.
ToSec1Bytes(pt) == <<2 + (pt[2] % 2)>> \o Pad(pt[1])

\* VerifyingKey::from_sec1_bytes, line 181.
FromSec1Bytes(key) ==
    IF Len(key) = ScalarLen + 1 /\ key[1] \in {2, 3}
    THEN Decompress(FromBigEndian(Tail(key)), key[1] - 2)
    ELSE Infinity

\* The digest as a scalar.
Bits2Field(digest) == FromBigEndian(digest) % GroupOrder

\* VerifyingKey::recover_from_prehash: the key a signature was made with, if the
\* nonce point is the one the recovery id names.
RecoverFromPrehash(z, r, s, id) ==
    LET x == IF id >= 2 THEN r + GroupOrder ELSE r
        pt == Decompress(x, id % 2)
    IN  IF pt = Infinity
        THEN Infinity
        ELSE ScalarMul(Inverse(r, GroupOrder),
                       Add(ScalarMul(s, pt), Negate(ScalarMul(z, Generator))))

\* RecoveryId::trial_recovery_from_prehash, line 184: the first recovery id whose
\* recovered key is the given one, -1 if there is none.
TrialRecoveryFromPrehash(key, z, r, s) ==
    LET ids == {id \in 0..MaxRecoveryId : RecoverFromPrehash(z, r, s, id) = key}
    IN  IF ids = {} THEN -1 ELSE CHOOSE id \in ids : \A other \in ids : id <= other

\* to_recoverable with a recovery that fails answered by recovery id 0.
to_recoverable_Defaulting(sig, digest, pub_key) ==
    LET parsed == FromSlice(sig)
        key == FromSec1Bytes(pub_key)
        id == TrialRecoveryFromPrehash(key, Bits2Field(digest), parsed.r, parsed.s)
    IN  IF ~parsed.ok THEN Failure("Sign")
        ELSE IF key = Infinity THEN Failure("Sign")
        ELSE IF id = -1 THEN Bytes(ToVec(parsed.r, parsed.s) \o <<RecoveryOffset>>)
        ELSE Bytes(ToVec(parsed.r, parsed.s) \o <<id + RecoveryOffset>>)

\* to_recoverable, lines 173-193.
to_recoverable(sig, digest, pub_key) ==
    LET parsed == FromSlice(sig)
        key == FromSec1Bytes(pub_key)
        id == TrialRecoveryFromPrehash(key, Bits2Field(digest), parsed.r, parsed.s)
    IN  IF ~parsed.ok THEN Failure("Sign")
        ELSE IF key = Infinity THEN Failure("Sign")
        ELSE IF id = -1 THEN Failure("Sign")
        ELSE Bytes(ToVec(parsed.r, parsed.s) \o <<id + RecoveryOffset>>)

\* What a signer answers for private key d, nonce k and digest z.
EcdsaSign(d, k, z) ==
    LET pt == ScalarMul(k, Generator)
        r == pt[1] % GroupOrder
    IN  ToVec(r, (Inverse(k, GroupOrder) * (z + r * d)) % GroupOrder)

\* The arguments to_recoverable is called with: signatures made with the keys, nonces
\* and digests of the bounds, a truncated one, one with a zero scalar, one with a
\* scalar that is not below the group order and one with a scalar of two bytes; those
\* keys, an ed25519 key (32 bytes) and a SEC1 encoding of no point; those digests.
RecoverSigs ==
    {EcdsaSign(d, k, z) : d \in 1..MaxKey, k \in 1..MaxNonce, z \in 1..MaxDigest}
        \cup {SubSeq(ToVec(2, 1), 1, 2 * ScalarLen - 1),
              ToVec(0, 1),
              ToVec(2, GroupOrder),
              [ToVec(2, 1) EXCEPT ![1] = 1]}
RecoverKeys ==
    {ToSec1Bytes(ScalarMul(d, Generator)) : d \in 1..MaxKey}
        \cup {Pad(5), <<2>> \o Pad(3)}
RecoverDigests == {Pad(z) : z \in 1..MaxDigest}

\* The call of to_recoverable, on arguments drawn once.
ToRecoverableCall(sig, digest, pub_key) ==
    /\ recIn = NoInput
    /\ recIn' = [sig |-> sig, digest |-> digest, pub_key |-> pub_key]
    /\ recOut' = to_recoverable(sig, digest, pub_key)
    /\ UNCHANGED <<clientVars, contractVars, multisigVars, chainVars, vars>>

RecoverNext ==
    \E sig \in RecoverSigs, digest \in RecoverDigests, pub_key \in RecoverKeys :
        ToRecoverableCall(sig, digest, pub_key)

RecoverSpec == Init /\ [][RecoverNext]_allVars

(***************************************************************************)
(* The RPC clients: Client::request of ampd/src/json_rpc.rs and the        *)
(* TmClient implementation for HttpClient of ampd/src/tm_client.rs.  Each  *)
(* call wraps the provider's future in time::timeout of 2000 ms.           *)
(***************************************************************************)

\* The wrapped calls.
Methods == {"request", "latest_block", "block_results"}

\* The caller starts a call: the provider's future is polled under the deadline.
ClientCall(m) ==
    /\ rpcPc = "idle"
    /\ Len(rpcLog) < MaxCalls
    /\ rpcPc' = "pending"
    /\ rpcMethod' = m
    /\ UNCHANGED <<rpcLog, recoverVars, contractVars, multisigVars, chainVars, vars>>

\* The provider answers within the deadline with a response: the caller gets Ok(_).
ProviderOk ==
    /\ rpcPc = "pending"
    /\ rpcPc' = "idle"
    /\ rpcLog' = Append(rpcLog, [method |-> rpcMethod, ended |-> "response", got |-> "Ok"])
    /\ UNCHANGED <<rpcMethod, recoverVars, contractVars, multisigVars, chainVars, vars>>

\* The provider answers within the deadline with an error: map_err(Report::from)
\* hands it to the caller as Err(_).
ProviderErr ==
    /\ rpcPc = "pending"
    /\ rpcPc' = "idle"
    /\ rpcLog' = Append(rpcLog, [method |-> rpcMethod, ended |-> "error", got |-> "Err"])
    /\ UNCHANGED <<rpcMethod, recoverVars, contractVars, multisigVars, chainVars, vars>>

\* The 2000 ms elapse first: time::timeout yields Err(Elapsed) and expect(..) panics,
\* so the caller gets no value and unwinds.
ClientTimeout ==
    /\ rpcPc = "pending"
    /\ rpcPc' = "panicked"
    /\ rpcLog' = Append(rpcLog, [method |-> rpcMethod, ended |-> "elapsed", got |-> "panic"])
    /\ UNCHANGED <<rpcMethod, recoverVars, contractVars, multisigVars, chainVars, vars>>

ClientNext ==
    \/ \E m \in Methods : ClientCall(m)
    \/ ProviderOk
    \/ ProviderErr
    \/ ClientTimeout

ClientSpec == Init /\ [][ClientNext]_allVars

(***************************************************************************)
(* The multisig-prover contract: construct_proof and rotate_snapshot of    *)
(* contracts/multisig-prover/src/execute.rs, start_multisig_reply of       *)
(* reply.rs and BatchID::new of types.rs.  The gateway and the multisig    *)
(* contract are external; the host calls the reply entry point after a     *)
(* submessage that succeeded, within the transaction of construct_proof.   *)
(* The entry points are modelled as the functions on storage they are: the *)
(* host reverts the writes of a transaction that fails, the model keeps    *)
(* them, which only adds states.                                           *)
(***************************************************************************)

\* The separator of join(","), as a byte.
Comma == 44

\* Message ids, as the bytes of their strings: "a", "ab", "b", "c" and "d".
MessageIds == {<<97>>, <<97, 98>>, <<98>>, <<99>>, <<100>>}

\* The chain name of the contract's Config.
ConfigChainName == "ethereum"

\* What the gateway holds: the messages with the ids "a" and "ab" go to the configured
\* chain, "b" to another one, "d" has a destination that is no chain name; it holds
\* no message with the id "c".
GatewayMessages ==
    {[id |-> <<97>>, destination_chain |-> "ethereum"],
     [id |-> <<97, 98>>, destination_chain |-> "ethereum"],
     [id |-> <<98>>, destination_chain |-> "polygon"],
     [id |-> <<100>>, destination_chain |-> ""]}

\* The lists of at most MaxIds message ids, a repeated id included.
MessageIdLists == UNION {[1..n -> MessageIds] : n \in 0..MaxIds}

\* The lists of message ids ConstructProof is called with: those that name no id
\* twice, in every order.
ProofRequests ==
    {l \in MessageIdLists : \A i, j \in 1..Len(l) : l[i] = l[j] => i = j}

\* The key ids rotate_snapshot is called with.
KeyIds == {"key1", "key2"}

\* Option<T>: None and Some(v); `nothing` is a value of the type of v.
None(nothing) == [some |-> FALSE, value |-> nothing]
Some(v) == [some |-> TRUE, value |-> v]

\* The order of String: bytewise lexicographic.
RECURSIVE StringLeq(_, _)
StringLeq(a, b) ==
    IF a = <<>> THEN TRUE
    ELSE IF b = <<>> THEN FALSE
    ELSE IF a[1] # b[1] THEN a[1] < b[1]
    ELSE StringLeq(Tail(a), Tail(b))

RECURSIVE SortedInsert(_, _)
SortedInsert(x, s) ==
    IF s = <<>> THEN <<x>>
    ELSE IF StringLeq(x, s[1]) THEN <<x>> \o s
    ELSE <<s[1]>> \o SortedInsert(x, Tail(s))

\* message_ids.sort()
RECURSIVE Sort(_)
Sort(s) ==
    IF s = <<>> THEN <<>> ELSE SortedInsert(s[1], Sort(Tail(s)))

\* message_ids.join(",")
RECURSIVE Join(_)
Join(s) ==
    IF s = <<>> THEN <<>>
    ELSE IF Len(s) = 1 THEN s[1]
    ELSE s[1] \o <<Comma>> \o Join(Tail(s))

\* Keccak256::digest: a digest stands for the bytes it was made of (no collisions).
Keccak256(bytes) == [keccak256 |-> bytes]

\* BatchID::new without the sort.
BatchIDNew_Unsorted(message_ids) ==
    Keccak256(Join(message_ids))

\* BatchID::new, types.rs lines 66-71: the digest of the sorted copy, joined.
BatchIDNew(message_ids) ==
    Keccak256(Join(Sort(message_ids)))

\* The gateway's answer to GetMessages { message_ids }: the messages with these ids,
\* in the order asked for, or a failure when it does not hold one of them.
GetMessages(message_ids) ==
    IF \A i \in 1..Len(message_ids) : \E m \in GatewayMessages : m.id = message_ids[i]
    THEN Some([i \in 1..Len(message_ids) |->
                  CHOOSE m \in GatewayMessages : m.id = message_ids[i]])
    ELSE None(<<>>)

\* ChainName::from_str(..).ok(): the empty string is no chain name.
ChainNameFromStr(s) ==
    IF s = "" THEN None("") ELSE Some(s)

\* The test of lines 51-54 on the first message only.
AnyWrongChain_FirstOnly(messages) ==
    ChainNameFromStr(messages[1].destination_chain) # Some(ConfigChainName)

\* The test of lines 51-54: some message is not for the configured chain.
AnyWrongChain(messages) ==
    \E i \in 1..Len(messages) :
        ChainNameFromStr(messages[i].destination_chain) # Some(ConfigChainName)

\* CommandBatch::new: the batch of these messages, identified by their ids.
CommandBatchNew(messages) ==
    LET ids == [i \in 1..Len(messages) |-> messages[i].id]
    IN  [id |-> BatchIDNew(ids), message_ids |-> ids, data |-> messages]

\* CommandBatch::msg_to_sign: a digest of the batch's data.
MsgToSign(batch) == [digest_of |-> batch.data]

\* ProofID::new: made of the batch id and the session id.
ProofIDNew(command_batch_id, session_id) ==
    [batch_id |-> command_batch_id, session_id |-> session_id]

\* cw_storage_plus::Map: may_load and save, on a map kept as a set of entries.
MayLoad(map, key, nothing) ==
    IF \E e \in map : e.key = key
    THEN Some((CHOOSE e \in map : e.key = key).value)
    ELSE None(nothing)

Save(map, key, value) ==
    {e \in map : e.key # key} \cup {[key |-> key, value |-> value]}

\* Values that stand for "nothing" in records of a fixed shape.
NoBatchID == Keccak256(<<>>)
NoBatch == [id |-> NoBatchID, message_ids |-> <<>>, data |-> <<>>]
NoProofID == [batch_id |-> NoBatchID, session_id |-> 0]
NoArgs ==
    [message_ids |-> <<>>, queried |-> FALSE, query |-> <<>>, answered |-> FALSE,
     messages |-> <<>>]
NoData == [some |-> FALSE, valid |-> FALSE, session_id |-> 0]

\* cosmwasm_std::Response or the ContractError returned in its place.
Response(tag, messages, events) ==
    [tag |-> tag, messages |-> messages, events |-> events]

\* The submessage of lines 82-91.
StartSigningSession(key_id, msg) ==
    [kind |-> "StartSigningSession", contract_addr |-> "multisig", key_id |-> key_id,
     msg |-> msg, reply_on |-> "success", reply_id |-> "START_MULTISIG_REPLY_ID"]

\* The message of lines 108-118.
KeyGen(key_id) ==
    [kind |-> "KeyGen", contract_addr |-> "multisig", key_id |-> key_id,
     msg |-> MsgToSign(NoBatch), reply_on |-> "never", reply_id |-> "none"]

\* The events of events.rs.
ProofUnderConstruction(proof_id) ==
    [ty |-> "proof_under_construction", proof_id |-> proof_id, key_id |-> "none"]

SnapshotRotated(key_id) ==
    [ty |-> "snapshot_rotated", proof_id |-> NoProofID, key_id |-> key_id]

\* LoadOrBuild with the batch built anew and saved whether or not one is stored.
LoadOrBuild_Rebuild(batch_id, messages) ==
    [built |-> TRUE, batch |-> CommandBatchNew(messages)]

\* Lines 58-74: the batch stored under batch_id if there is one, else a new batch of
\* the messages, to be saved under its own id.
LoadOrBuild(batch_id, messages) ==
    LET stored == MayLoad(commandsBatch, batch_id, NoBatch)
    IN  IF stored.some
        THEN [built |-> FALSE, batch |-> stored.value]
        ELSE [built |-> TRUE, batch |-> CommandBatchNew(messages)]

\* construct_proof, lines 21-92; `encodable` tells whether CommandBatch::new, when it
\* is called, succeeds; its failure is named InvalidMessage here.
ConstructProof(message_ids, encodable) ==
    /\ ppc = "idle"
    /\ proofCalls < MaxProofs
    /\ proofCalls' = proofCalls + 1
    /\ replyData' = NoData
    /\ LET batch_id == BatchIDNew(message_ids)
           answer == GetMessages(message_ids)
           messages == answer.value
           found == LoadOrBuild(batch_id, messages)
           failure ==
               IF keyId = "none" THEN "Std"
               ELSE IF ~answer.some THEN "Std"
               ELSE IF messages = <<>> THEN "NoMessagesFound"
               ELSE IF AnyWrongChain(messages) THEN "WrongChain"
               ELSE IF found.built /\ ~encodable THEN "InvalidMessage"
               ELSE "none"
       IN  /\ constructArgs' =
                 [message_ids |-> message_ids,
                  queried |-> keyId # "none",
                  query |-> IF keyId # "none" THEN message_ids ELSE <<>>,
                  answered |-> keyId # "none" /\ answer.some,
                  messages |-> IF keyId # "none" THEN messages ELSE <<>>]
           /\ IF failure # "none"
              THEN /\ pResponse' = Response(failure, <<>>, <<>>)
                   /\ UNCHANGED <<ppc, commandsBatch, replyBatch>>
              ELSE /\ commandsBatch' =
                         IF found.built
                         THEN Save(commandsBatch, found.batch.id, found.batch)
                         ELSE commandsBatch
                   /\ replyBatch' = Some(found.batch.id)
                   /\ pResponse' =
                         Response("Ok",
                                  <<StartSigningSession(keyId, MsgToSign(found.batch))>>,
                                  <<>>)
                   /\ ppc' = "submsg"
    /\ UNCHANGED <<keyId, proofBatchMultisig>>
    /\ UNCHANGED <<tokenTypeVars, recoverVars, clientVars, multisigVars, chainVars, vars>>

\* What the multisig contract can return as the data of its response: none, a session
\* id, or bytes that are no session id.
ReplyData ==
    {NoData, [some |-> TRUE, valid |-> FALSE, session_id |-> 0]}
        \cup {[some |-> TRUE, valid |-> TRUE, session_id |-> s] : s \in 1..MaxSession}

\* StartMultisigReply with a response without data taken as success.
StartMultisigReply_NoDataOk(data) ==
    /\ ppc = "submsg"
    /\ ppc' = "idle"
    /\ replyData' = data
    /\ IF data.some /\ replyBatch.some /\ data.valid
       THEN LET proof_id == ProofIDNew(replyBatch.value, data.session_id)
            IN  /\ proofBatchMultisig' =
                      Save(proofBatchMultisig, proof_id,
                           <<replyBatch.value, data.session_id>>)
                /\ pResponse' = Response("Ok", <<>>, <<ProofUnderConstruction(proof_id)>>)
       ELSE /\ pResponse' = Response(IF ~data.some THEN "Ok" ELSE "Std", <<>>, <<>>)
            /\ UNCHANGED proofBatchMultisig
    /\ UNCHANGED <<keyId, commandsBatch, replyBatch, proofCalls, constructArgs>>
    /\ UNCHANGED <<tokenTypeVars, recoverVars, clientVars, multisigVars, chainVars, vars>>

\* The submessage succeeded and the host calls start_multisig_reply, reply.rs lines
\* 13-41, with the response of the multisig contract.
StartMultisigReply(data) ==
    /\ ppc = "submsg"
    /\ ppc' = "idle"
    /\ replyData' = data
    /\ IF data.some /\ replyBatch.some /\ data.valid
       THEN LET proof_id == ProofIDNew(replyBatch.value, data.session_id)
            IN  /\ proofBatchMultisig' =
                      Save(proofBatchMultisig, proof_id,
                           <<replyBatch.value, data.session_id>>)
                /\ pResponse' = Response("Ok", <<>>, <<ProofUnderConstruction(proof_id)>>)
       ELSE /\ pResponse' = Response(IF ~data.some THEN "NoDataInReply" ELSE "Std",
                                     <<>>, <<>>)
            /\ UNCHANGED proofBatchMultisig
    /\ UNCHANGED <<keyId, commandsBatch, replyBatch, proofCalls, constructArgs>>
    /\ UNCHANGED <<tokenTypeVars, recoverVars, clientVars, multisigVars, chainVars, vars>>

\* The submessage failed: with ReplyOn::Success the host does not call the reply entry
\* point (reply.rs lines 37-39) and the transaction fails.
SubmessageFailed ==
    /\ ppc = "submsg"
    /\ ppc' = "idle"
    /\ pResponse' = Response("SubmessageFailed", <<>>, <<>>)
    /\ UNCHANGED <<keyId, commandsBatch, replyBatch, proofBatchMultisig, proofCalls,
                   constructArgs, replyData>>
    /\ UNCHANGED <<tokenTypeVars, recoverVars, clientVars, multisigVars, chainVars, vars>>

\* rotate_snapshot, lines 94-130; `registered` tells whether the snapshot of the
\* active workers can be taken.
RotateSnapshot(key_id, registered) ==
    /\ ppc = "idle"
    /\ keyId' = key_id
    /\ pResponse' = IF registered
                    THEN Response("Ok", <<KeyGen(key_id)>>, <<SnapshotRotated(key_id)>>)
                    ELSE Response("InvalidParticipants", <<>>, <<>>)
    /\ UNCHANGED <<ppc, commandsBatch, replyBatch, proofBatchMultisig, proofCalls,
                   constructArgs, replyData>>
    /\ UNCHANGED <<tokenTypeVars, recoverVars, clientVars, multisigVars, chainVars, vars>>

ProverNext ==
    \/ \E message_ids \in ProofRequests, encodable \in BOOLEAN :
          ConstructProof(message_ids, encodable)
    \/ \E data \in ReplyData : StartMultisigReply(data)
    \/ SubmessageFailed
    \/ \E key_id \in KeyIds, registered \in BOOLEAN : RotateSnapshot(key_id, registered)

ProverSpec == Init /\ [][ProverNext]_allVars

(***************************************************************************)
(* TokenManagerType of packages/interchain-token-service-api/src/          *)
(* primitives.rs: the enum with its discriminants and TryFrom<u8>.         *)
(***************************************************************************)

\* The largest value of a u8.
U8Max == 255

\* The variants of lines 19-24, in the order of their declaration.
TokenManagerTypes ==
    <<"NativeInterchainToken", "MintBurnFrom", "LockUnlock", "LockUnlockFee", "MintBurn",
      "Gateway">>

\* `t as u8`: the discriminant given to the variant at lines 19-24.
AsU8(t) ==
    CASE t = "NativeInterchainToken" -> 0
      [] t = "MintBurnFrom" -> 1
      [] t = "LockUnlock" -> 2
      [] t = "LockUnlockFee" -> 3
      [] t = "MintBurn" -> 4
      [] t = "Gateway" -> 5

\* Result<TokenManagerType, Report<Error>>.
Variant(t) == [tag |-> "Ok", variant |-> t]
InvalidEnum == [tag |-> "InvalidEnum", variant |-> "none"]
NoResult == [tag |-> "none", variant |-> "none"]

\* TryFromU8 with the arms of MintBurnFrom and MintBurn exchanged.
TryFromU8_Exchanged(value) ==
    CASE value = 0 -> Variant("NativeInterchainToken")
      [] value = 1 -> Variant("MintBurn")
      [] value = 2 -> Variant("LockUnlock")
      [] value = 3 -> Variant("LockUnlockFee")
      [] value = 4 -> Variant("MintBurnFrom")
      [] value = 5 -> Variant("Gateway")
      [] OTHER -> InvalidEnum

\* TokenManagerType::try_from(u8), lines 76-86.
TryFromU8(value) ==
    CASE value = 0 -> Variant("NativeInterchainToken")
      [] value = 1 -> Variant("MintBurnFrom")
      [] value = 2 -> Variant("LockUnlock")
      [] value = 3 -> Variant("LockUnlockFee")
      [] value = 4 -> Variant("MintBurn")
      [] value = 5 -> Variant("Gateway")
      [] OTHER -> InvalidEnum

\* The value of ttIn before the first call.
NoByte == [from |-> "none", variant |-> "none", value |-> 0]

\* try_from is called on a byte, drawn once.
TryFromByte(value) ==
    /\ ttIn = NoByte
    /\ ttIn' = [from |-> "u8", variant |-> "none", value |-> value]
    /\ ttOut' = TryFromU8(value)
    /\ UNCHANGED <<proverVars, recoverVars, clientVars, multisigVars, chainVars, vars>>

\* A variant, drawn once, is cast to u8 and try_from is called on the byte.
TryFromVariant(t) ==
    /\ ttIn = NoByte
    /\ ttIn' = [from |-> "variant", variant |-> t, value |-> AsU8(t)]
    /\ ttOut' = TryFromU8(AsU8(t))
    /\ UNCHANGED <<proverVars, recoverVars, clientVars, multisigVars, chainVars, vars>>

TokenNext ==
    \/ \E value \in 0..U8Max : TryFromByte(value)
    \/ \E i \in 1..Len(TokenManagerTypes) : TryFromVariant(TokenManagerTypes[i])

TokenSpec == Init /\ [][TokenNext]_allVars

(***************************************************************************)
(* Properties of the engine.                                               *)
(***************************************************************************)

Registered == 1..tasks

Range(s) == {s[i] : i \in 1..Len(s)}

NumOk(t) == Cardinality({i \in 1..Len(outcomes[t]) : outcomes[t][i] = "ok"})

Failures == {"EventHandlerError", "EventStreamError", "HandlerFailed"}

\* The task had finished, and the JoinSet knew, before run() returned.
Known(t) == t \in Registered /\ phase # "building" /\ (t \notin set \/ t \in Range(notified))

\* Once run() has returned: the finished tasks in the order the JoinSet learnt of them,
\* the joined one first.
CompletionOrder ==
    IF phase = "returned"
    THEN <<CHOOSE t \in Registered : t \notin set>> \o notified
    ELSE <<>>

FaultOrder == SelectSeq(CompletionOrder, LAMBDA t : pc[t] # "Completed")

\* C1: per task, the handler is invoked on the events of the stream in the order the
\* stream yields them, none skipped, duplicated or reordered; an invocation begins only
\* when every earlier one has resolved, so at most one is in flight per task.
C1_Ordering ==
    \A t \in TaskIds :
        /\ handled[t] = [i \in 1..Len(handled[t]) |-> i]
        /\ Len(handled[t]) = IF pc[t] = "FaultedStream" THEN pos[t] - 1 ELSE pos[t]
        /\ inflight[t] \in {0, 1}
        /\ inflight[t] = 1 <=> pc[t] = "handling"
        /\ Len(outcomes[t]) <= Len(handled[t])
        /\ Len(handled[t]) <= Len(outcomes[t]) + 1
        /\ pc[t] = "handling" => Len(handled[t]) = Len(outcomes[t]) + 1

\* Two events of one stream have been handled in order while another task has an
\* invocation in flight.
C1_Witness ==
    \E t, u \in TaskIds :
        /\ t # u
        /\ Len(outcomes[t]) >= 2
        /\ pc[u] = "handling"

\* C2: run() returns Ok only when every registered task has returned Ok(()).
C2_OkOnlyIfAllCompleted ==
    result = "Ok" => \A t \in Registered : pc[t] = "Completed"

\* C3: when the handler of some task has returned a failure that the JoinSet learnt of
\* before run() returned, run() does not return Ok.
C3_FailFast ==
    \A t \in Registered :
        (phase = "returned" /\ pc[t] = "FaultedHandler" /\ Known(t)) => result # "Ok"

\* C4: with two tasks and no cancellation, when run() has returned Ok both streams have
\* ended and each handler has succeeded on every event its stream delivered.
C4_FanOut ==
    (result = "Ok" /\ tasks = 2 /\ ~engineToken) =>
        \A t \in Registered :
            /\ streamEnded[t]
            /\ Len(handled[t]) = pos[t]
            /\ NumOk(t) = pos[t]

\* C5: under a cancelled token a task whose handler has just succeeded stops
\* (Completed) if the event was a boundary event and goes on to the next item if it
\* was not; and a task stops without its stream having ended only in that way: token
\* cancelled, the event a boundary event, that event passed to the handler, and the
\* handler successful on it.
C5_BoundaryAlignedCancellation ==
    [][\A t \in TaskIds :
        /\ (/\ token[t]
            /\ pc[t] = "handling"
            /\ outcomes'[t] = Append(outcomes[t], "ok"))
           => pc'[t] = IF event[t] = "BlockEnd" THEN "Completed" ELSE "waiting"
        /\ (/\ pc[t] \in Live
            /\ pc'[t] = "Completed"
            /\ ~streamEnded'[t])
           => /\ token[t]
              /\ pc[t] = "handling"
              /\ event[t] = "BlockEnd"
              /\ handled[t][Len(handled[t])] = pos[t]
              /\ handled'[t] = handled[t]
              /\ outcomes'[t] = Append(outcomes[t], "ok")
      ]_vars

\* A task has stopped at a boundary event under its cancelled token, after an earlier
\* event that did not stop it.
C5_Witness ==
    \E t \in TaskIds :
        /\ token[t]
        /\ pc[t] = "Completed"
        /\ ~streamEnded[t]
        /\ Len(outcomes[t]) >= 2

\* C6: the step that cancels the token changes nothing of any task nor of the engine;
\* and an invocation in flight under a cancelled token ends only by its own resolution
\* (Ok, Err or the deadline), or by the drop of the task once run() is over.
C6_SignalNeverInterrupts ==
    [][/\ engineToken' # engineToken => UNCHANGED <<taskVars, engineVars, notified>>
       /\ \A t \in TaskIds :
            (token[t] /\ pc[t] = "handling" /\ pc'[t] # "handling") =>
                \/ /\ Len(outcomes'[t]) = Len(outcomes[t]) + 1
                   /\ pc'[t] \in {"waiting", "Completed", "FaultedHandler", "TimedOut"}
                \/ /\ pc'[t] = "Aborted"
                   /\ phase \in {"returned", "panicked"}
      ]_vars

\* The token was cancelled during an invocation, which has then resolved with Ok and
\* the task has gone on to wait for the next item.
C6_Witness ==
    \E t \in TaskIds :
        /\ signalledIn[t]
        /\ pc[t] = "waiting"
        /\ Len(outcomes[t]) = Len(handled[t])
        /\ outcomes[t][Len(outcomes[t])] = "ok"

\* C7: when run() has returned Ok after the token was cancelled, with no stream ended
\* or failed and no handler failed or late, every registered task has stopped at a
\* boundary event.
C7_GracefulShutdown ==
    (/\ result = "Ok"
     /\ engineToken
     /\ \A t \in Registered :
            /\ ~streamEnded[t]
            /\ pc[t] # "FaultedStream"
            /\ NumOk(t) = Len(outcomes[t]))
    => \A t \in Registered : pc[t] = "Completed"

\* C8: an invocation that ran into the deadline is the last thing its task did: the
\* task is TimedOut, the event was passed to the handler once, nothing was dispatched
\* or pulled after it.
C8_TimeoutIsFatal ==
    \A t \in TaskIds :
        /\ \A i \in 1..Len(outcomes[t]) :
              outcomes[t][i] = "elapsed" =>
                  /\ pc[t] = "TimedOut"
                  /\ i = Len(outcomes[t])
                  /\ Len(handled[t]) = i
                  /\ pos[t] = i
                  /\ Cardinality({j \in 1..Len(handled[t]) : handled[t][j] = i}) = 1
                  /\ inflight[t] = 0
        /\ pc[t] = "TimedOut" =>
              /\ Len(outcomes[t]) >= 1
              /\ outcomes[t][Len(outcomes[t])] = "elapsed"

\* A task has timed out on the first event of a stream that could yield more, and
\* run() has returned HandlerFailed.
C8_Witness ==
    \E t \in TaskIds :
        /\ pc[t] = "TimedOut"
        /\ pos[t] < MaxEvents
        /\ ~streamEnded[t]
        /\ result = "HandlerFailed"

\* C9: when a handler invocation has run into its deadline before run() returned,
\* run() returns a failure.
C9_HungHandlerFailsRun ==
    \A t \in Registered :
        (phase = "returned" /\ pc[t] = "TimedOut" /\ Known(t)) => result \in Failures

\* C10: a task whose stream yielded a failure item is FaultedStream without the handler
\* having been invoked for that item, and if its fault is the first one, run() returns
\* EventStreamError.
C10_StreamFailure ==
    \A t \in Registered :
        pc[t] = "FaultedStream" =>
            /\ Len(handled[t]) = pos[t] - 1
            /\ inflight[t] = 0
            /\ (FaultOrder # <<>> /\ Head(FaultOrder) = t) => result = "EventStreamError"

\* The label add_handler was given for the task: the tests register every task as "foo".
Label(t) == "foo"

\* The label that can be read off a value run() returns: EventProcessorError has three
\* unit variants, and neither change_context nor bail! attaches anything to them.
ErrorLabel(r) == "none"

\* Once run() has returned: the task join_next handed over.
Joined == CHOOSE t \in Registered : t \notin set

\* C11: run() produces its result once and never again; a result that is not the
\* panic is the outcome of the first finished task of the JoinSet, which is taken off
\* the set while the later ones stay queued, unread.
C11_SingleResult ==
    [][/\ result # "none" =>
            /\ result' = result
            /\ phase' = phase
            /\ set' = set
            /\ notified' = notified
       /\ (result = "none" /\ result' \in Failures \cup {"Ok"}) =>
            /\ notified # <<>>
            /\ result' = JoinResult(Head(notified))
            /\ set' = set \ {Head(notified)}
            /\ notified' = Tail(notified)
      ]_vars

\* run() has returned one fault while a later fault of another kind is queued.
C11_Witness ==
    /\ result \in Failures
    /\ \E t \in Range(notified) : pc[t] # "Completed" /\ JoinResult(t) # result

\* C12: while a fault heads the finished tasks, monitor_set can return whatever the
\* other tasks do; it then returns that fault and leaves the other tasks as they are;
\* and once run() is over nothing a task does reaches the set, the queue or the result.
C12_NoWaitAfterFault ==
    /\ [](/\ phase = "running"
          /\ notified # <<>>
          /\ pc[Head(notified)] # "Completed"
          => ENABLED MonitorJoin)
    /\ [][/\ (phase = "running" /\ phase' = "returned" /\ pc[Head(notified)] # "Completed")
             => (result' = JoinResult(Head(notified)) /\ pc' = pc)
          /\ phase = "returned" => (result' = result /\ set' = set /\ notified' = notified)
         ]_vars

\* run() has returned a fault while another task still waits on a stream that has
\* yielded nothing.
C12_Witness ==
    /\ result \in Failures
    /\ \E t \in Registered : pc[t] = "waiting" /\ pos[t] = 0

\* C13: when run() is over, every registered task has exited and the token was never
\* cancelled, run() has panicked and returned no result.
C13_AllExitedPanics ==
    (/\ phase \in {"returned", "panicked"}
     /\ tasks >= 1
     /\ ~engineToken
     /\ \A t \in Registered : pc[t] = "Completed")
    => result = "panic"

\* C14: with one task and a token never cancelled, the task ends Ok only when its
\* stream has ended, having handled with success every event the stream yielded (no
\* boundary event stops it); monitor_set can then return, and run() returns Ok exactly
\* in that case.
C14_SingleTaskHandlesAll ==
    (tasks = 1 /\ ~engineToken) =>
        /\ pc[1] = "Completed" =>
              /\ streamEnded[1]
              /\ Len(handled[1]) = pos[1]
              /\ NumOk(1) = pos[1]
        /\ (phase = "running" /\ pc[1] = "Completed") => ENABLED MonitorJoin
        /\ (phase = "returned" /\ pc[1] = "Completed") => result = "Ok"
        /\ result = "Ok" => pc[1] = "Completed"

\* The only task has handled as many events as the bound allows and run() returned Ok.
C14_Witness ==
    /\ tasks = 1
    /\ ~engineToken
    /\ result = "Ok"
    /\ NumOk(1) >= 2

\* C15: a failure returned by run() carries the label of the task that caused it.
C15_FailureNamesTask ==
    (phase = "returned" /\ result \in Failures) => ErrorLabel(result) = Label(Joined)

\* C16: before run() no task is started: nothing pulled, nothing handled, nothing in
\* the JoinSet; run() starts every registered task, and a task is started only by
\* that step, once.
C16_RegistrationStartsNothing ==
    /\ [](phase = "building" =>
            /\ set = {}
            /\ notified = <<>>
            /\ \A t \in TaskIds :
                  /\ pc[t] = IF t <= tasks THEN "created" ELSE "none"
                  /\ pos[t] = 0
                  /\ handled[t] = <<>>
                  /\ inflight[t] = 0)
    /\ [](phase # "building" => \A t \in TaskIds : pc[t] # "created")
    /\ [][/\ (phase = "building" /\ phase' # "building") =>
                /\ set' = Registered
                /\ tasks' = tasks
                /\ \A t \in Registered : pc'[t] = "waiting"
          /\ \A t \in TaskIds :
                /\ (pc[t] = "created" /\ pc'[t] # "created") => phase = "building"
                /\ (pc[t] # "none" /\ pc[t] # "created") => pc'[t] \notin {"none", "created"}
          /\ phase # "building" => tasks' = tasks
         ]_vars

\* run() has just started two registered tasks.
C16_Witness ==
    /\ phase = "running"
    /\ tasks >= 2
    /\ \A t \in Registered : pc[t] = "waiting" /\ pos[t] = 0

C23_FailureBeforeCheckpoint ==
    /\ [](\A t \in TaskIds :
            pc[t] = "Completed" => \A i \in 1..Len(outcomes[t]) : outcomes[t][i] = "ok")
    /\ [][\A t \in TaskIds :
            (pc[t] = "handling" /\ outcomes'[t] = Append(outcomes[t], "err"))
                => pc'[t] = "FaultedHandler"
         ]_vars

\* A handler invocation on a boundary event is in flight under a cancelled token and
\* can fail.
C23_Witness ==
    \E t \in TaskIds :
        /\ pc[t] = "handling"
        /\ event[t] = "BlockEnd"
        /\ token[t]
        /\ ENABLED HandlerErr(t)

\* The states in which a task has terminated.
Terminated == {"Completed", "FaultedHandler", "FaultedStream", "TimedOut"}

\* C24: a task leaves its running states for exactly one of Completed, FaultedHandler,
\* FaultedStream or TimedOut (or is dropped with the set), and from then on its state,
\* its stream position and its handler log never change.
C24_TerminatesOnce ==
    [][\A t \in TaskIds :
        /\ (pc[t] \in Live /\ pc'[t] \notin Live) => pc'[t] \in Terminated \cup {"Aborted"}
        /\ pc[t] \in Terminated \cup {"Aborted"} =>
              /\ pc'[t] = pc[t]
              /\ pos'[t] = pos[t]
              /\ streamEnded'[t] = streamEnded[t]
              /\ handled'[t] = handled[t]
              /\ outcomes'[t] = outcomes[t]
              /\ inflight'[t] = 0
      ]_vars

\* Two tasks have terminated in different ways, each on a stream that could yield more,
\* and run() is over.
C24_Witness ==
    \E t, u \in TaskIds :
        /\ pc[t] = "Completed"
        /\ pc[u] \in Terminated \ {"Completed"}
        /\ ~streamEnded[t] /\ pos[t] < MaxEvents
        /\ ~streamEnded[u] /\ pos[u] < MaxEvents
        /\ phase = "returned"

\* C25: the tokens change only in a step that is not the engine's: the step that
\* cancels the engine's token from outside changes nothing of the engine or its tasks,
\* and no other step (a task ending in any way, run() returning, a tick) changes the
\* token of the engine or of a registered task.
C25_EngineNeverCancels ==
    [][\/ /\ engineToken' = engineToken
          /\ \A t \in Registered : token'[t] = token[t]
       \/ /\ ~engineToken /\ engineToken'
          /\ UNCHANGED <<taskVars, engineVars, notified>>
      ]_vars

\* run() has returned the failure of a timed-out task while another task is still
\* running, and no token is cancelled.
C25_Witness ==
    /\ phase = "returned"
    /\ result = "HandlerFailed"
    /\ ~engineToken
    /\ \A t \in Registered : ~token[t]
    /\ \E t \in Registered : pc[t] \in Live

\* C26: a tick changes nothing but the count of ticks, and whether monitor_set can
\* return does not depend on ticks: with a finished task queued it can always return.
C26_HeartbeatObservational ==
    /\ [](phase = "running" /\ notified # <<>> => ENABLED MonitorJoin)
    /\ [][heartbeats' # heartbeats =>
            UNCHANGED <<phase, tasks, set, result, notified, taskVars, tokenVars>>
         ]_vars

\* A tick was logged, then run() returned the first of two finished tasks.
C26_Witness ==
    /\ heartbeats >= 1
    /\ phase = "returned"
    /\ result # "none"
    /\ notified # <<>>

\* C30: when the token is cancelled during a handler invocation on a boundary event
\* and the handler then succeeds, the task is Completed in that very step, and a
\* Completed task pulls nothing more.
C30_CheckAfterHandler ==
    [][\A t \in TaskIds :
        /\ (/\ pc[t] = "handling"
            /\ signalledIn[t]
            /\ event[t] = "BlockEnd"
            /\ outcomes'[t] = Append(outcomes[t], "ok"))
           => (pc'[t] = "Completed" /\ pos'[t] = pos[t])
        /\ pc[t] = "Completed" => (pos'[t] = pos[t] /\ handled'[t] = handled[t])
      ]_vars

\* The token was cancelled during the invocation on a boundary event, the handler has
\* succeeded and the task has stopped although its stream could yield more.
C30_Witness ==
    \E t \in TaskIds :
        /\ signalledIn[t]
        /\ pc[t] = "Completed"
        /\ ~streamEnded[t]
        /\ pos[t] < MaxEvents
        /\ outcomes[t][Len(outcomes[t])] = "ok"

\* C31: cancellation alone never terminates a task.  The cancelling step leaves every
\* task where it is; a task under a cancelled token that waits on its stream leaves
\* that wait only when the stream yields an item or ends (or when the task is dropped
\* after run() is over), there is no deadline on the wait; on an event that is not a
\* boundary event its handler has its full effect, as under a live token: success
\* takes the task back to the wait, failure and the deadline end it as they always
\* do; and it ends as Completed only on a boundary event or at the end of the stream.
C31_CancellationAloneNeverTerminates ==
    [][\A t \in TaskIds :
        /\ engineToken' # engineToken => pc'[t] = pc[t]
        /\ (token[t] /\ pc[t] = "waiting" /\ pc'[t] # "waiting") =>
              \/ /\ pos'[t] = pos[t] + 1
                 /\ pc'[t] \in {"handling", "FaultedStream"}
              \/ /\ ~streamEnded[t] /\ streamEnded'[t]
                 /\ pc'[t] = "Completed"
              \/ /\ pc'[t] = "Aborted"
                 /\ phase \in {"returned", "panicked"}
        /\ (token[t] /\ pc[t] = "handling" /\ event[t] # "BlockEnd" /\ pc'[t] # "handling") =>
              \/ /\ outcomes'[t] = Append(outcomes[t], "ok")
                 /\ pc'[t] = "waiting"
              \/ /\ outcomes'[t] = Append(outcomes[t], "err")
                 /\ pc'[t] = "FaultedHandler"
              \/ /\ outcomes'[t] = Append(outcomes[t], "elapsed")
                 /\ pc'[t] = "TimedOut"
              \/ /\ pc'[t] = "Aborted"
                 /\ phase \in {"returned", "panicked"}
        /\ (token[t] /\ pc[t] \in Live /\ pc'[t] = "Completed") =>
              \/ pc[t] = "handling" /\ event[t] = "BlockEnd"
              \/ pc[t] = "waiting" /\ streamEnded'[t]
      ]_vars

\* A task whose token was cancelled before it pulled its second item has handled the
\* first, pulled the second, which is no boundary event, and is handling it.
C31_Witness ==
    \E t \in TaskIds :
        /\ token[t]
        /\ ~signalledIn[t]
        /\ pc[t] = "handling"
        /\ event[t] = "Abci"
        /\ pos[t] = 2
        /\ outcomes[t] = <<"ok">>

C33_KindsDistinguishable ==
    phase = "returned" =>
        /\ result \in Failures \cup {"Ok"}
        /\ result = "EventStreamError" <=> pc[Joined] = "FaultedStream"
        /\ result = "EventHandlerError" <=> pc[Joined] = "FaultedHandler"
        /\ result = "HandlerFailed" <=> pc[Joined] = "TimedOut"
        /\ result = "Ok" <=> pc[Joined] = "Completed"
        /\ pc[Joined] = "FaultedStream" =>
              Len(handled[Joined]) = pos[Joined] - 1
        /\ pc[Joined] = "FaultedHandler" =>
              outcomes[Joined][Len(outcomes[Joined])] = "err"
        /\ pc[Joined] = "TimedOut" =>
              outcomes[Joined][Len(outcomes[Joined])] = "elapsed"

\* run() has returned EventHandlerError for a task whose handler failed, while a task
\* that ran into the deadline is queued behind it.
C33_Witness ==
    /\ phase = "returned"
    /\ result = "EventHandlerError"
    /\ pc[Joined] = "FaultedHandler"
    /\ \E t \in Range(notified) : pc[t] = "TimedOut"

\* What the claims about the multisig handler call an applicable event.
Applicable(e) ==
    /\ e.event_type = "wasm-signing_started"
    /\ e.wellFormed
    /\ e.contract_address = Multisig
    /\ Worker \in e.pub_keys

\* C34: within one handle call the handler broadcasts at most one transaction, and
\* only in the step in which the signer, called before for the digest of this event,
\* answers with a signature that to_recoverable accepts; the transaction carries the
\* session id of the event, the worker as sender and the multisig address as contract.
\* So there are never more broadcasts than calls of the signer, nor more of these than
\* handle calls, and the broadcasts are, in order, those of the signed events.
C34_BroadcastAfterSign ==
    /\ [](/\ Len(broadcasts) <= Len(signed)
          /\ Len(signed) <= mCalls
          /\ \A i \in 1..Len(broadcasts) :
                /\ broadcasts[i].sender = Worker
                /\ broadcasts[i].contract = Multisig
                /\ \E j \in i..Len(signed) :
                      signed[j].session_id = broadcasts[i].session_id
          /\ mpc = "broadcasting" =>
                /\ broadcasts # <<>>
                /\ broadcasts[Len(broadcasts)].session_id = mEvent.session_id)
    /\ [][/\ broadcasts' # broadcasts =>
                /\ mpc = "signing"
                /\ mCalls' = mCalls
                /\ signed' = signed
                /\ signed[Len(signed)] = [session_id |-> mEvent.session_id,
                                          msg |-> mEvent.msg]
                /\ signOut' \in Signatures
                /\ ToRecoverable(signOut') = "Ok"
                /\ broadcasts' = Append(broadcasts,
                                        [sender |-> Worker, contract |-> Multisig,
                                         session_id |-> mEvent.session_id])
          /\ signed' # signed =>
                /\ mCalls' = mCalls + 1
                /\ Applicable(mEvent')
                /\ signed' = Append(signed, [session_id |-> mEvent'.session_id,
                                             msg |-> mEvent'.msg])
                /\ broadcasts' = broadcasts
          /\ mpc = "broadcasting" => broadcasts' = broadcasts
         ]_allVars

\* Two events with different session ids and digests have been handled, the signer
\* has answered both and the broadcaster has failed on the second: two broadcasts,
\* one per event, in the order of the events.
C34_Witness ==
    /\ mpc = "idle"
    /\ mCalls = 2
    /\ mResult = "Broadcaster"
    /\ Len(signed) = 2
    /\ signed[1].msg # signed[2].msg
    /\ Len(broadcasts) = 2
    /\ broadcasts[1].session_id = signed[1].session_id
    /\ broadcasts[2].session_id = signed[2].session_id
    /\ broadcasts[1].session_id # broadcasts[2].session_id

\* C18: chain(A, B) invokes A first on every event; if A fails the composite fails
\* with A's failure and B is never invoked for that event; if A succeeds B is
\* invoked exactly once on the same event and the composite returns what B returned.
C18_ChainShortCircuit ==
    /\ aLog = [i \in 1..Len(aLog) |-> i]
    /\ \A i, j \in 1..Len(bLog) : bLog[i] = bLog[j] => i = j
    /\ Range(bLog) \subseteq Range(aLog)
    /\ cpc = "inA" => aOut = "none" /\ bOut = "none" /\ aLog[Len(aLog)] \notin Range(bLog)
    /\ cpc = "inB" => aOut = "ok" /\ bOut = "none" /\ bLog[Len(bLog)] = aLog[Len(aLog)]
    /\ (cpc = "idle" /\ aLog # <<>>) =>
          /\ aOut # "none"
          /\ aOut = "err" =>
                /\ cResult = "ErrA"
                /\ bOut = "none"
                /\ aLog[Len(aLog)] \notin Range(bLog)
          /\ aOut = "ok" =>
                /\ bOut # "none"
                /\ bLog[Len(bLog)] = aLog[Len(aLog)]
                /\ cResult = (IF bOut = "ok" THEN "Ok" ELSE "ErrB")

\* C18 witness: A succeeded on the first event, B was invoked on it, and A has
\* failed on the second, which B never saw.
C18_Witness ==
    /\ cpc = "idle"
    /\ Len(aLog) = 2
    /\ bLog = <<1>>
    /\ aOut = "err"
    /\ cResult = "ErrA"

C20_SignFailure ==
    [][/\ (signOut' = "failed" /\ mpc = "signing")
          => /\ Applicable(mEvent)
             /\ mpc' = "idle"
             /\ mResult' = "Sign"
             /\ broadcasts' = broadcasts
       /\ broadcasts' # broadcasts
          => /\ mpc = "signing"
             /\ signOut' \in Signatures
             /\ mCalls' = mCalls]_allVars

\* C20 witness: the signer has failed on an applicable event after an earlier call
\* had broadcast a signature; the failed call added nothing.
C20_Witness ==
    /\ mpc = "idle"
    /\ mCalls = 2
    /\ Applicable(mEvent)
    /\ signOut = "failed"
    /\ mResult = "Sign"
    /\ Len(signed) = 2
    /\ Len(broadcasts) = 1


\* C21: a handle call on a wasm-signing_started event whose attributes do not
\* deserialize returns DeserializeEvent without calling the signer or broadcasting,
\* whatever its contract address and pub_keys are; a call that returns Ok at once was
\* made on an event of another type or on one that deserialized.
C21_MalformedIsFailure ==
    [][mCalls' = mCalls + 1 =>
        /\ (mEvent'.event_type = "wasm-signing_started" /\ ~mEvent'.wellFormed)
              => /\ mResult' = "DeserializeEvent"
                 /\ mpc' = "idle"
                 /\ signed' = signed
                 /\ broadcasts' = broadcasts
        /\ mResult' = "Ok"
              => (mEvent'.event_type # "wasm-signing_started" \/ mEvent'.wellFormed)
        /\ mResult' = "DeserializeEvent"
              => (mEvent'.event_type = "wasm-signing_started" /\ ~mEvent'.wellFormed)
      ]_allVars

\* A malformed wasm-signing_started event that names the handler's contract and the
\* worker has been answered with DeserializeEvent, nothing signed or broadcast.
C21_Witness ==
    /\ mCalls > 0
    /\ mpc = "idle"
    /\ mEvent.event_type = "wasm-signing_started"
    /\ ~mEvent.wellFormed
    /\ mEvent.contract_address = Multisig
    /\ Worker \in mEvent.pub_keys
    /\ mResult = "DeserializeEvent"
    /\ signed = <<>>
    /\ broadcasts = <<>>

\* C22 as stated: to_recoverable returns 65 bytes, the 64 bytes of the signature
\* unchanged and then 27 plus the recovery candidate, 0 or 1, for which recovery from
\* the digest and the signature gives the public key: the last byte is 27 or 28.
C22_AsStated ==
    recOut.tag = "Ok" =>
        /\ Len(recOut.bytes) = 2 * ScalarLen + 1
        /\ SubSeq(recOut.bytes, 1, 2 * ScalarLen) = recIn.sig
        /\ recOut.bytes[2 * ScalarLen + 1] \in {RecoveryOffset, RecoveryOffset + 1}
        /\ RecoverFromPrehash(Bits2Field(recIn.digest),
                              FromSlice(recIn.sig).r, FromSlice(recIn.sig).s,
                              recOut.bytes[2 * ScalarLen + 1] - RecoveryOffset)
             = FromSec1Bytes(recIn.pub_key)

\* C28: a call through an RPC client that does not finish within its 2 seconds
\* hands an error result to its caller; the caller is not aborted.
C28_TimeoutPropagated ==
    /\ rpcPc # "panicked"
    /\ \A i \in 1..Len(rpcLog) : rpcLog[i].ended = "elapsed" => rpcLog[i].got = "Err"

\* The causes for which to_recoverable has no encoding to return: the signature does
\* not parse, the public key does not decode, or no recovery id gives the public key.
Unrecoverable(sig, digest, pub_key) ==
    \/ ~FromSlice(sig).ok
    \/ FromSec1Bytes(pub_key) = Infinity
    \/ \A id \in 0..MaxRecoveryId :
          RecoverFromPrehash(Bits2Field(digest), FromSlice(sig).r, FromSlice(sig).s, id)
              # FromSec1Bytes(pub_key)

C35_ReplyBindsSession ==
    /\ [](ppc = "submsg" =>
            /\ replyBatch.some
            /\ pResponse.tag = "Ok"
            /\ \E e \in commandsBatch :
                  /\ e.key = replyBatch.value
                  /\ pResponse.messages[1].msg = MsgToSign(e.value))
    /\ [][/\ ppc = "submsg" => replyBatch' = replyBatch
          /\ (ppc = "submsg" /\ pResponse'.tag # "SubmessageFailed") =>
                /\ (replyData'.some /\ replyData'.valid) =>
                      LET b == replyBatch.value
                          s == replyData'.session_id
                      IN  /\ proofBatchMultisig' =
                                {e \in proofBatchMultisig : e.key # ProofIDNew(b, s)}
                                    \cup {[key |-> ProofIDNew(b, s), value |-> <<b, s>>]}
                          /\ pResponse' =
                                Response("Ok", <<>>,
                                         <<ProofUnderConstruction(ProofIDNew(b, s))>>)
                /\ ~replyData'.some =>
                      /\ pResponse' = Response("NoDataInReply", <<>>, <<>>)
                      /\ UNCHANGED <<proofBatchMultisig, commandsBatch, replyBatch, keyId>>
         ]_allVars

\* Two calls of construct_proof for different batches have each been answered with a
\* session id, and both proofs are recorded.
C35_Witness ==
    /\ ppc = "idle"
    /\ proofCalls = 2
    /\ pResponse.tag = "Ok"
    /\ Len(pResponse.events) = 1
    /\ Cardinality(proofBatchMultisig) = 2
    /\ Cardinality(commandsBatch) = 2
    /\ \E e \in proofBatchMultisig :
          /\ e.key = pResponse.events[1].proof_id
          /\ e.value[1] = replyBatch.value
          /\ e.value[2] = replyData.session_id

\* C36: a call of construct_proof that the gateway answers with no message fails with
\* NoMessagesFound, and one it answers with a message whose destination chain is not
\* the configured chain fails with WrongChain; these failures have no other cause,
\* and a failed call changes neither COMMANDS_BATCH nor REPLY_BATCH and emits no
\* submessage.
C36_RejectsBeforeWriting ==
    [][proofCalls' = proofCalls + 1 =>
        LET a == constructArgs'
            wrong == \E i \in 1..Len(a.messages) :
                        a.messages[i].destination_chain # ConfigChainName
        IN  /\ (a.answered /\ a.messages = <<>>) => pResponse'.tag = "NoMessagesFound"
            /\ (a.answered /\ wrong) => pResponse'.tag = "WrongChain"
            /\ pResponse'.tag = "NoMessagesFound" => (a.answered /\ a.messages = <<>>)
            /\ pResponse'.tag = "WrongChain" => (a.answered /\ wrong)
            /\ pResponse'.tag # "Ok" =>
                  /\ pResponse'.messages = <<>>
                  /\ pResponse'.events = <<>>
                  /\ ppc' = "idle"
                  /\ UNCHANGED <<commandsBatch, replyBatch, proofBatchMultisig>>
      ]_allVars

\* After a call that stored a batch, a call for two messages of which only the second
\* is for another chain has failed with WrongChain.
C36_Witness ==
    /\ proofCalls = 2
    /\ pResponse.tag = "WrongChain"
    /\ Len(constructArgs.messages) = 2
    /\ constructArgs.messages[1].destination_chain = ConfigChainName
    /\ commandsBatch # {}
    /\ replyBatch.some

\* C37: a stored batch is stored under its own id and is never changed or removed; a
\* successful call of construct_proof that finds a batch under BatchID::new of its
\* message ids stores nothing and asks for the signing of that batch's msg_to_sign;
\* every successful call emits exactly one submessage, StartSigningSession with reply
\* on success, for the msg_to_sign of the batch whose id it leaves in REPLY_BATCH.
C37_ReusesStoredBatch ==
    /\ [](\A e \in commandsBatch : e.key = e.value.id)
    /\ [][/\ \A e \in commandsBatch : e \in commandsBatch'
          /\ (proofCalls' = proofCalls + 1 /\ pResponse'.tag = "Ok") =>
                /\ Len(pResponse'.messages) = 1
                /\ pResponse'.events = <<>>
                /\ pResponse'.messages[1].kind = "StartSigningSession"
                /\ pResponse'.messages[1].reply_on = "success"
                /\ pResponse'.messages[1].key_id = keyId
                /\ replyBatch'.some
                /\ \E e \in commandsBatch' :
                      /\ e.key = replyBatch'.value
                      /\ pResponse'.messages[1].msg = MsgToSign(e.value)
                /\ \A e \in commandsBatch :
                      e.key = BatchIDNew(constructArgs'.message_ids) =>
                          /\ commandsBatch' = commandsBatch
                          /\ replyBatch'.value = e.key
                          /\ pResponse'.messages[1].msg = MsgToSign(e.value)
         ]_allVars

\* The second call of construct_proof names the two message ids of the first in the
\* other order and has been answered with the batch the first call stored.
C37_Witness ==
    /\ proofCalls = 2
    /\ ppc = "submsg"
    /\ Len(constructArgs.message_ids) = 2
    /\ Cardinality(commandsBatch) = 1
    /\ \E e \in commandsBatch :
          /\ e.key = replyBatch.value
          /\ Len(e.value.message_ids) = 2
          /\ e.value.message_ids # constructArgs.message_ids
          /\ pResponse.messages[1].msg = MsgToSign(e.value)

\* C38: BatchID::new gives the same id for every permutation of a list of message
\* ids; and it leaves the list it is given as it is: construct_proof, which computes
\* the id first, sends the gateway the ids in the order of its caller, and the id it
\* leaves in REPLY_BATCH is that of every permutation of them.
C38_OrderIndependent ==
    /\ \A ids \in MessageIdLists :
          \A p \in Permutations(1..Len(ids)) :
              BatchIDNew([i \in 1..Len(ids) |-> ids[p[i]]]) = BatchIDNew(ids)
    /\ [][proofCalls' = proofCalls + 1 =>
            LET ids == constructArgs'.message_ids
            IN  /\ constructArgs'.queried => constructArgs'.query = ids
                /\ pResponse'.tag = "Ok" =>
                      \A p \in Permutations(1..Len(ids)) :
                          replyBatch'.value =
                              Keccak256(Join(Sort([i \in 1..Len(ids) |-> ids[p[i]]])))
         ]_allVars

\* construct_proof was called with the ids "ab", "a", which are not in order; it has
\* asked the gateway for them in that order and left the id of "a", "ab" in
\* REPLY_BATCH.
C38_Witness ==
    /\ constructArgs.message_ids = <<<<97, 98>>, <<97>>>>
    /\ constructArgs.query = <<<<97, 98>>, <<97>>>>
    /\ pResponse.tag = "Ok"
    /\ replyBatch.value = Keccak256(<<97, 44, 97, 98>>)

\* C39: try_from of the byte a variant is cast to gives that variant back; try_from
\* of a byte from 0 to 5 gives a variant that is cast to that byte; try_from of a
\* byte from 6 to 255 is InvalidEnum.
C39_TryFromInverse ==
    /\ ttIn.from = "variant" =>
          /\ ttIn.value = AsU8(ttIn.variant)
          /\ ttOut = [tag |-> "Ok", variant |-> ttIn.variant]
    /\ (ttIn.from = "u8" /\ ttIn.value \in 0..5) =>
          /\ ttOut.tag = "Ok"
          /\ AsU8(ttOut.variant) = ttIn.value
    /\ (ttIn.from = "u8" /\ ttIn.value \in 6..255) =>
          ttOut = [tag |-> "InvalidEnum", variant |-> "none"]

\* try_from was called on the byte of MintBurn, 4, and has returned MintBurn.
C39_Witness ==
    /\ ttIn.from = "variant"
    /\ ttIn.variant = "MintBurn"
    /\ ttIn.value = 4
    /\ ttOut.tag = "Ok"
    /\ ttOut.variant = "MintBurn"

====
